---- MODULE Spec2Model ----
(***************************************************************************)
(* The vision embedding server: a line-delimited JSON-RPC loop over stdin  *)
(* and stdout, in its two backends, vision/server.py (PyTorch) and         *)
(* vision/server_mlx.py (MLX).                                             *)
(*                                                                         *)
(* Python values are tagged records [t, v]: t is the Python type and v the *)
(* payload.  A dict is a sequence of <<key, value>> pairs in insertion     *)
(* order.  A float is held by its repr ("0.5", "NaN", "Infinity", ...).    *)
(* A call that may raise returns [raised, val, msg]: msg is str(e).        *)
(***************************************************************************)
EXTENDS Integers, Sequences, FiniteSets, TLC

VARIABLES
    backend,    \* which file was launched: "torch" (server.py) or "mlx" (server_mlx.py)
    hw,         \* the hardware torch reports: [mps, cuda]
    pc,         \* where main() is
    model,      \* global model: "None" until init_model has loaded it
    device,     \* global device (server.py), None until init_model sets it
    dtype,      \* global dtype (server.py), None until init_model sets it
    line,       \* the loop variable of "for line in sys.stdin", as last read
    req,        \* main()'s local variable req: unbound until json.loads first returns
    response,   \* main()'s local variable response: the value last handed to the encoder
    stdout,     \* the lines written to sys.stdout, each a sequence of JSON tokens
    stderr,     \* the messages written to sys.stderr by log() and by the interpreter
    nread,      \* how many lines of stdin have been consumed
    metrics,    \* the Prometheus counters and histogram (server.py)
    fs,         \* the paths that exist in the file system
    runs        \* the outputs of the model's forward passes during the last iteration

vars == <<backend, hw, pc, model, device, dtype, line, req, response, stdout, stderr, nread,
          metrics, fs, runs>>

-----------------------------------------------------------------------------
(* Bounds of the model *)

\* how many lines of stdin a session of the protocol specification reads
MaxLines == 2

\* how many inputs (paths, texts) one embedding request of the embedding
\* specification carries at most
MaxBatch == 2

-----------------------------------------------------------------------------
(* Python values *)

None == [t |-> "null", v |-> <<>>]
PyBool(b) == [t |-> "bool", v |-> b]
PyInt(n) == [t |-> "int", v |-> n]
PyFloat(f) == [t |-> "float", v |-> f]
PyStr(s) == [t |-> "str", v |-> s]
PyList(s) == [t |-> "list", v |-> s]
PyDict(s) == [t |-> "dict", v |-> s]

\* a local variable that no assignment has bound yet
Unbound == [t |-> "unbound", v |-> <<>>]

isinstance_dict(o) == o.t = "dict"

HasKey(d, k) == \E i \in 1..Len(d.v) : d.v[i][1] = k

\* d[k] for a key that is present
Item(d, k) == d.v[CHOOSE i \in 1..Len(d.v) : d.v[i][1] = k][2]

\* dict.get(k, default)
Get(d, k, default) == IF HasKey(d, k) THEN Item(d, k) ELSE default

\* the reprs of the floats that are not finite
NonFinite == {"NaN", "Infinity", "-Infinity"}

\* math.isnan(o) or math.isinf(o), for a float
IsNonFiniteFloat(o) == o.t = "float" /\ o.v \in NonFinite

RECURSIVE Concat(_)
Concat(ss) == IF ss = <<>> THEN <<>> ELSE Head(ss) \o Concat(Tail(ss))

-----------------------------------------------------------------------------
(* Results of calls that may raise *)

Return(x) == [raised |-> FALSE, val |-> x, msg |-> ""]
Raise(m) == [raised |-> TRUE, val |-> None, msg |-> m]

-----------------------------------------------------------------------------
(* JSON encoding *)

\* lexical tokens of an encoded line
Punct(s) == [k |-> "punct", s |-> s]
Lit(s) == [k |-> "literal", s |-> s]
Num(s) == [k |-> "number", s |-> s]
Quoted(s) == [k |-> "string", s |-> s]

\* some float anywhere in the value is NaN or an infinity
RECURSIVE ContainsNonFinite(_)
ContainsNonFinite(o) ==
    CASE o.t = "float" -> o.v \in NonFinite
      [] o.t = "list" -> \E i \in 1..Len(o.v) : ContainsNonFinite(o.v[i])
      [] o.t = "dict" -> \E i \in 1..Len(o.v) : ContainsNonFinite(o.v[i][2])
      [] OTHER -> FALSE

\* the elements of a list or dict body, comma separated
RECURSIVE Joined(_)
Joined(parts) ==
    IF parts = <<>> THEN <<>>
    ELSE IF Len(parts) = 1 THEN parts[1]
    ELSE parts[1] \o <<Punct(",")>> \o Joined(Tail(parts))

\* json.dumps(obj) with allow_nan=True (the default): a non-finite float is
\* written as the token NaN, Infinity or -Infinity
RECURSIVE json_dumps(_)
json_dumps(o) ==
    CASE o.t = "null" -> <<Lit("null")>>
      [] o.t = "bool" -> <<Lit(IF o.v THEN "true" ELSE "false")>>
      [] o.t = "int" -> <<Num(ToString(o.v))>>
      [] o.t = "float" -> <<Num(o.v)>>
      [] o.t = "str" -> <<Quoted(o.v)>>
      [] o.t = "list" ->
            <<Punct("[")>>
            \o Joined([i \in 1..Len(o.v) |-> json_dumps(o.v[i])])
            \o <<Punct("]")>>
      [] o.t = "dict" ->
            <<Punct("{")>>
            \o Joined([i \in 1..Len(o.v) |->
                   <<Quoted(o.v[i][1]), Punct(":")>> \o json_dumps(o.v[i][2])])
            \o <<Punct("}")>>

\* json.dumps(obj, allow_nan=False): ValueError on a non-finite float
json_dumps_strict(o) ==
    IF ContainsNonFinite(o)
    THEN Raise("Out of range float values are not JSON compliant")
    ELSE Return(json_dumps(o))

\* sanitize looking at the values of a dict but not into its lists
sanitize_shallow(o) ==
    IF IsNonFiniteFloat(o) THEN None
    ELSE IF o.t = "dict"
    THEN PyDict([i \in 1..Len(o.v) |->
                    <<o.v[i][1],
                      IF IsNonFiniteFloat(o.v[i][2]) THEN None ELSE o.v[i][2]>>])
    ELSE o

\* the inner function of safe_json_dumps
RECURSIVE sanitize(_)
sanitize(o) ==
    IF IsNonFiniteFloat(o) THEN None
    ELSE CASE o.t = "dict" ->
                 PyDict([i \in 1..Len(o.v) |-> <<o.v[i][1], sanitize(o.v[i][2])>>])
           [] o.t = "list" -> PyList([i \in 1..Len(o.v) |-> sanitize(o.v[i])])
           [] OTHER -> o

\* safe_json_dumps(obj) after its try: what the strict encoder returned, or
\* the except clause
safe_json_dumps_except(strict, o) ==
    IF ~strict.raised
    THEN [line |-> strict.val, logged |-> <<>>]
    ELSE [line |-> json_dumps(sanitize(o)), logged |-> <<"sanitizing">>]

\* safe_json_dumps(obj): [line, logged]
safe_json_dumps(o) == safe_json_dumps_except(json_dumps_strict(o), o)

\* how main() of each file encodes a response
encode(b, o) ==
    IF b = "torch" THEN safe_json_dumps(o)
    ELSE [line |-> json_dumps(o), logged |-> <<>>]

-----------------------------------------------------------------------------
(* Tensors: the output of a forward pass is a sequence (the batch) of items, *)
(* an item a sequence of vectors, a vector a sequence of float reprs.        *)

FloatVals == {"0.5", "NaN", "Infinity", "-Infinity"}

\* what one input can embed to: one vector, or two
Items ==
    {<<(<<f>>)>> : f \in FloatVals} \cup {<<(<<f>>), (<<"0.5">>)>> : f \in {"0.5", "NaN"}}

\* the outputs a forward pass can have for a batch of n inputs
TensorsOf(n, items) == [1..n -> items]

\* torch.isnan(t).any()
isnan_any(t) ==
    \E i \in 1..Len(t) : \E j \in 1..Len(t[i]) : \E k \in 1..Len(t[i][j]) :
        t[i][j][k] = "NaN"

\* torch.finfo(dtype).max as .float() and tolist() give it back
finfo_max(dt) ==
    IF dt = "torch.bfloat16" THEN "3.3895313892515355e+38"
    ELSE "3.4028234663852886e+38"

\* torch.nan_to_num(t, nan=0.0): posinf and neginf are left at their defaults,
\* the greatest and the lowest finite value of the dtype
nan_to_num(t, dt) ==
    [i \in 1..Len(t) |-> [j \in 1..Len(t[i]) |-> [k \in 1..Len(t[i][j]) |->
        CASE t[i][j][k] = "NaN" -> "0.0"
          [] t[i][j][k] = "Infinity" -> finfo_max(dt)
          [] t[i][j][k] = "-Infinity" -> "-" \o finfo_max(dt)
          [] OTHER -> t[i][j][k]]]]

\* embeddings[i].cpu().float().numpy().tolist()
tolist(item) ==
    PyList([j \in 1..Len(item) |->
        PyList([k \in 1..Len(item[j]) |-> PyFloat(item[j][k])])])

\* what a handler did: its return value or exception, the forward passes it
\* ran, what it logged, and the metrics and the file system it leaves
Effect(r, ran, logged, m, f) ==
    [raised |-> r.raised, val |-> r.val, msg |-> r.msg,
     runs |-> ran, logged |-> logged, metrics |-> m, fs |-> f]

-----------------------------------------------------------------------------
(* server.py: embedding *)

\* embed_images counting the values of the first vector instead of the vectors
embed_images_counts_values(paths, env, dt) ==
    Return(PyDict(<< <<"embeddings",
                       PyList([i \in 1..Len(env.first) |-> tolist(env.first[i])])>>,
                     <<"num_vectors",
                       PyList([i \in 1..Len(env.first) |-> PyInt(Len(env.first[i][1]))])>> >>))
    @@ [runs |-> <<env.first>>, logged |-> <<>>]

\* embed_images(paths): [raised, val, msg, runs, logged]
embed_images(paths, env, dt) ==
    LET noruns == [runs |-> <<>>, logged |-> <<>>] IN
    IF env.fault = "open" /\ Len(paths.v) > 0
    THEN Raise("No such file or directory") @@ noruns
    ELSE IF env.fault = "process"
    THEN Raise("processor failed") @@ noruns
    ELSE IF env.fault = "forward"
    THEN Raise("forward pass failed") @@ noruns
    ELSE
    LET first == env.first
        nan1 == isnan_any(first)
        second == env.retry
        nan2 == isnan_any(second)
        embeddings ==
            IF ~nan1 THEN first
            ELSE IF ~nan2 THEN second
            ELSE nan_to_num(second, dt)
        results == [i \in 1..Len(embeddings) |-> tolist(embeddings[i])]
        num_vectors == [i \in 1..Len(embeddings) |-> PyInt(Len(embeddings[i]))]
    IN Return(PyDict(<< <<"embeddings", PyList(results)>>,
                        <<"num_vectors", PyList(num_vectors)>> >>))
       @@ [runs |-> IF nan1 THEN <<first, second>> ELSE <<first>>,
           logged |-> IF ~nan1 THEN <<>>
                      ELSE IF ~nan2 THEN <<"nan_retry">>
                      ELSE <<"nan_retry", "nan_persists">>]

\* embed_queries(texts): [raised, val, msg, runs, logged]
embed_queries(texts, env) ==
    IF env.fault = "process"
    THEN Raise("processor failed") @@ [runs |-> <<>>, logged |-> <<>>]
    ELSE IF env.fault = "forward"
    THEN Raise("forward pass failed") @@ [runs |-> <<>>, logged |-> <<>>]
    ELSE
    LET embeddings == env.first
        results == [i \in 1..Len(embeddings) |-> tolist(embeddings[i])]
    IN Return(PyDict(<< <<"embeddings", PyList(results)>> >>))
       @@ [runs |-> <<embeddings>>, logged |-> <<>>]

-----------------------------------------------------------------------------
(* server_mlx.py: embedding, one forward pass per input *)

\* embed_images(paths) of server_mlx.py
embed_images_mlx(paths, env) ==
    LET noruns == [runs |-> <<>>, logged |-> <<>>] IN
    IF env.fault = "open" /\ Len(paths.v) > 0
    THEN Raise("No such file or directory") @@ noruns
    ELSE IF env.fault \in {"process", "forward"} /\ Len(paths.v) > 0
    THEN Raise("forward pass failed") @@ noruns
    ELSE
    LET all_embeddings == [i \in 1..Len(paths.v) |-> tolist(env.first[i])]
        num_vectors == [i \in 1..Len(paths.v) |-> PyInt(Len(env.first[i]))]
    IN Return(PyDict(<< <<"embeddings", PyList(all_embeddings)>>,
                        <<"num_vectors", PyList(num_vectors)>> >>))
       @@ [runs |-> [i \in 1..Len(paths.v) |-> <<env.first[i]>>], logged |-> <<>>]

\* embed_queries(texts) of server_mlx.py
embed_queries_mlx(texts, env) ==
    IF env.fault \in {"process", "forward"} /\ Len(texts.v) > 0
    THEN Raise("forward pass failed") @@ [runs |-> <<>>, logged |-> <<>>]
    ELSE
    LET results == [i \in 1..Len(texts.v) |-> tolist(env.first[i])]
    IN Return(PyDict(<< <<"embeddings", PyList(results)>> >>))
       @@ [runs |-> [i \in 1..Len(texts.v) |-> <<env.first[i]>>], logged |-> <<>>]

-----------------------------------------------------------------------------
(* Document extraction (the same code in both files) *)

\* str.strip() on the texts of the model
strip(s) ==
    CASE s = " " -> ""
      [] s = " Hello " -> "Hello"
      [] s = " Scan " -> "Scan"
      [] OTHER -> s

\* Pad4 without the padding
Pad4_unpadded(n) == ToString(n)

\* f"{page_num:04d}"
Pad4(n) ==
    IF n < 10 THEN "000" \o ToString(n)
    ELSE IF n < 100 THEN "00" \o ToString(n)
    ELSE IF n < 1000 THEN "0" \o ToString(n)
    ELSE ToString(n)

\* os.path.join(output_dir, name), output_dir not ending in a separator
path_join(dir, name) == dir \o "/" \o name

\* extract_pages(pdf_path, output_dir): [raised, val, msg, fs]
extract_pages(pdf_path, output_dir, env, f) ==
    IF env.fault = "makedirs"
    THEN Raise("Permission denied") @@ [fs |-> f]
    ELSE
    LET f1 == f \cup {output_dir.v} IN
    IF ~env.doc.readable
    THEN Raise("cannot open document") @@ [fs |-> f1]
    ELSE
    LET n == Len(env.doc.pages)
        img_path(i) == path_join(output_dir.v, "page_" \o Pad4(i - 1) \o ".png")
        paths == [i \in 1..n |-> PyStr(img_path(i))]
    IN Return(PyDict(<< <<"paths", PyList(paths)>>,
                        <<"page_count", PyInt(Len(paths))>> >>))
       @@ [fs |-> f1 \cup {img_path(i) : i \in 1..n}]

\* extract_text_page recording a page whose OCR raised as an OCR page
extract_text_page_hides_failure(page_num, page, has_tesseract) ==
    LET text == strip(page.native) IN
    IF text = "" /\ has_tesseract
    THEN [record |-> PyDict(<< <<"page_number", PyInt(page_num)>>,
                               <<"text", PyStr(IF page.ocr_raises THEN text
                                               ELSE strip(page.ocr))>>,
                               <<"method", PyStr("tesseract")>> >>),
          logged |-> <<>>]
    ELSE [record |-> PyDict(<< <<"page_number", PyInt(page_num)>>,
                               <<"text", PyStr(text)>>,
                               <<"method", PyStr("pymupdf")>> >>),
          logged |-> <<>>]

\* one page of extract_text's loop: [record, logged]
extract_text_page(page_num, page, has_tesseract) ==
    LET text == strip(page.native) IN
    IF text = "" /\ has_tesseract
    THEN IF page.ocr_raises
         THEN [record |-> PyDict(<< <<"page_number", PyInt(page_num)>>,
                                    <<"text", PyStr(text)>>,
                                    <<"method", PyStr("ocr_failed")>> >>),
               logged |-> <<"ocr_failed">>]
         ELSE [record |-> PyDict(<< <<"page_number", PyInt(page_num)>>,
                                    <<"text", PyStr(strip(page.ocr))>>,
                                    <<"method", PyStr("tesseract")>> >>),
               logged |-> <<>>]
    ELSE [record |-> PyDict(<< <<"page_number", PyInt(page_num)>>,
                               <<"text", PyStr(text)>>,
                               <<"method", PyStr("pymupdf")>> >>),
          logged |-> <<>>]

\* extract_text(pdf_path): [raised, val, msg, logged]
extract_text(pdf_path, env) ==
    IF ~env.doc.readable
    THEN Raise("cannot open document") @@ [logged |-> <<>>]
    ELSE
    LET has_tesseract == env.tess
        n == Len(env.doc.pages)
        each == [i \in 1..n |-> extract_text_page(i - 1, env.doc.pages[i], has_tesseract)]
    IN Return(PyDict(<< <<"pages", PyList([i \in 1..n |-> each[i].record])>>,
                        <<"has_tesseract", PyBool(has_tesseract)>> >>))
       @@ [logged |-> Concat([i \in 1..n |-> each[i].logged])]

-----------------------------------------------------------------------------
(* Dispatch *)

MODEL_ID == "tsystems/colqwen2.5-3b-multilingual-v1.0-merged"
MODEL_ID_mlx == "qnguyen3/colqwen2.5-v0.2-mlx"
BACKEND == "mlx"

\* the methods whose requests and durations server.py counts
MetricMethods == {"embed_images", "embed_query", "embed_queries", "extract_pages"}

\* EMBED_REQUESTS.labels(method=m).inc()
inc_requests(m, method) == [m EXCEPT !.requests[method] = @ + 1]

\* PAGES_PROCESSED.inc(n)
inc_pages(m, n) == [m EXCEPT !.pages = @ + n]

\* leaving "with EMBED_DURATION.labels(method=m).time()": one observation
observe(m, method) == [m EXCEPT !.observed[method] = @ + 1]

\* params[k]: KeyError when the key is missing, TypeError when params is no dict
Subscript(params, k) ==
    IF params.t # "dict" THEN Raise("object is not subscriptable")
    ELSE IF ~HasKey(params, k) THEN Raise("'" \o k \o "'")
    ELSE Return(Item(params, k))

\* str(method) inside the f-string of the unknown-method error
str_of(o) ==
    CASE o.t = "str" -> o.v
      [] o.t = "null" -> "None"
      [] o.t = "int" -> ToString(o.v)
      [] OTHER -> "object"

\* {"id": req_id, "result": result}
result_response(req_id, result) ==
    PyDict(<< <<"id", req_id>>, <<"result", result>> >>)

\* error_response with the result key left in beside the error
error_response_both(req_id, message) ==
    PyDict(<< <<"id", req_id>>, <<"result", None>>, <<"error", PyStr(message)>> >>)

\* {"id": req_id, "error": message}
error_response(req_id, message) ==
    PyDict(<< <<"id", req_id>>, <<"error", PyStr(message)>> >>)

\* the query methods of handle_request, embed_query handing out the whole
\* batch result instead of its first element
handle_request_no_unwrap(rq, env, m, f, dev, dt) ==
    LET method == Get(rq, "method", None)
        params == Get(rq, "params", PyDict(<<>>))
        req_id == Get(rq, "id", None)
        key == IF method = PyStr("embed_query") THEN "text" ELSE "texts"
        arg == Subscript(params, key)
    IN
    IF method \notin {PyStr("embed_query"), PyStr("embed_queries")}
    THEN Effect(Return(error_response(req_id, "Unknown method: " \o str_of(method))),
                <<>>, <<>>, m, f)
    ELSE IF arg.raised THEN Effect(arg, <<>>, <<>>, m, f)
    ELSE
    LET e == embed_queries(IF key = "text" THEN PyList(<<arg.val>>) ELSE arg.val, env)
    IN IF e.raised THEN Effect(e, e.runs, e.logged, m, f)
       ELSE IF key = "text"
       THEN Effect(Return(result_response(req_id, PyDict(<<
                       <<"embedding", Item(e.val, "embeddings")>> >>))),
                   e.runs, e.logged, m, f)
       ELSE Effect(Return(result_response(req_id, e.val)), e.runs, e.logged, m, f)

\* handle_request(req) of server.py, for a req that is a dict
handle_request(rq, env, m, f, dev, dt) ==
    LET method == Get(rq, "method", None)
        params == Get(rq, "params", PyDict(<<>>))
        req_id == Get(rq, "id", None)
    IN
    IF method = PyStr("health") THEN
        Effect(Return(result_response(req_id, PyDict(<<
                   <<"status", PyStr("ok")>>,
                   <<"model", PyStr(MODEL_ID)>>,
                   <<"device", PyStr(dev)>>,
                   <<"dtype", PyStr(dt)>> >>))), <<>>, <<>>, m, f)
    ELSE IF method = PyStr("embed_images") THEN
        IF env.fault = "metrics" THEN Effect(Raise("metrics failure"), <<>>, <<>>, m, f)
        ELSE
        LET m1 == inc_requests(m, "embed_images")
            paths == Subscript(params, "paths")
        IN IF paths.raised THEN Effect(paths, <<>>, <<>>, m1, f)
           ELSE IF paths.val.t # "list"
           THEN Effect(Raise("object has no len()"), <<>>, <<>>, m1, f)
           ELSE
           LET m2 == inc_pages(m1, Len(paths.val.v))
               e == embed_images(paths.val, env, dt)
               m3 == observe(m2, "embed_images")
           IN IF e.raised THEN Effect(e, e.runs, e.logged, m3, f)
              ELSE Effect(Return(result_response(req_id, e.val)),
                          e.runs, e.logged, m3, f)
    ELSE IF method = PyStr("embed_query") THEN
        IF env.fault = "metrics" THEN Effect(Raise("metrics failure"), <<>>, <<>>, m, f)
        ELSE
        LET m1 == inc_requests(m, "embed_query")
            text == Subscript(params, "text")
            m2 == observe(m1, "embed_query")
        IN IF text.raised THEN Effect(text, <<>>, <<>>, m2, f)
           ELSE
           LET e == embed_queries(PyList(<<text.val>>), env)
           IN IF e.raised THEN Effect(e, e.runs, e.logged, m2, f)
              ELSE Effect(Return(result_response(req_id, PyDict(<<
                              <<"embedding", Item(e.val, "embeddings").v[1]>> >>))),
                          e.runs, e.logged, m2, f)
    ELSE IF method = PyStr("embed_queries") THEN
        IF env.fault = "metrics" THEN Effect(Raise("metrics failure"), <<>>, <<>>, m, f)
        ELSE
        LET m1 == inc_requests(m, "embed_queries")
            texts == Subscript(params, "texts")
            m2 == observe(m1, "embed_queries")
        IN IF texts.raised THEN Effect(texts, <<>>, <<>>, m2, f)
           ELSE
           LET e == embed_queries(texts.val, env)
           IN IF e.raised THEN Effect(e, e.runs, e.logged, m2, f)
              ELSE Effect(Return(result_response(req_id, e.val)),
                          e.runs, e.logged, m2, f)
    ELSE IF method = PyStr("extract_pages") THEN
        IF env.fault = "metrics" THEN Effect(Raise("metrics failure"), <<>>, <<>>, m, f)
        ELSE
        LET m1 == inc_requests(m, "extract_pages")
            pdf_path == Subscript(params, "pdf_path")
            output_dir == Subscript(params, "output_dir")
            m2 == observe(m1, "extract_pages")
        IN IF pdf_path.raised THEN Effect(pdf_path, <<>>, <<>>, m2, f)
           ELSE IF output_dir.raised THEN Effect(output_dir, <<>>, <<>>, m2, f)
           ELSE
           LET e == extract_pages(pdf_path.val, output_dir.val, env, f)
           IN IF e.raised THEN Effect(e, <<>>, <<>>, m2, e.fs)
              ELSE Effect(Return(result_response(req_id, e.val)), <<>>, <<>>, m2, e.fs)
    ELSE IF method = PyStr("extract_text") THEN
        LET pdf_path == Subscript(params, "pdf_path")
        IN IF pdf_path.raised THEN Effect(pdf_path, <<>>, <<>>, m, f)
           ELSE
           LET e == extract_text(pdf_path.val, env)
           IN IF e.raised THEN Effect(e, <<>>, e.logged, m, f)
              ELSE Effect(Return(result_response(req_id, e.val)), <<>>, e.logged, m, f)
    ELSE IF method = PyStr("shutdown") THEN
        Effect(Return(result_response(req_id, PyDict(<<
                   <<"status", PyStr("shutting_down")>> >>))), <<>>, <<>>, m, f)
    ELSE
        Effect(Return(error_response(req_id, "Unknown method: " \o str_of(method))),
               <<>>, <<>>, m, f)

\* handle_request(req) of server_mlx.py, for a req that is a dict
handle_request_mlx(rq, env, m, f) ==
    LET method == Get(rq, "method", None)
        params == Get(rq, "params", PyDict(<<>>))
        req_id == Get(rq, "id", None)
    IN
    IF method = PyStr("health") THEN
        Effect(Return(result_response(req_id, PyDict(<<
                   <<"status", PyStr("ok")>>,
                   <<"model", PyStr(MODEL_ID_mlx)>>,
                   <<"device", PyStr("gpu")>>,
                   <<"dtype", PyStr("float16")>>,
                   <<"backend", PyStr(BACKEND)>> >>))), <<>>, <<>>, m, f)
    ELSE IF method = PyStr("embed_images") THEN
        LET paths == Subscript(params, "paths")
        IN IF paths.raised THEN Effect(paths, <<>>, <<>>, m, f)
           ELSE IF paths.val.t # "list"
           THEN Effect(Raise("object is not iterable"), <<>>, <<>>, m, f)
           ELSE
           LET e == embed_images_mlx(paths.val, env)
           IN IF e.raised THEN Effect(e, e.runs, e.logged, m, f)
              ELSE Effect(Return(result_response(req_id, e.val)), e.runs, e.logged, m, f)
    ELSE IF method = PyStr("embed_query") THEN
        LET text == Subscript(params, "text")
        IN IF text.raised THEN Effect(text, <<>>, <<>>, m, f)
           ELSE
           LET e == embed_queries_mlx(PyList(<<text.val>>), env)
           IN IF e.raised THEN Effect(e, e.runs, e.logged, m, f)
              ELSE Effect(Return(result_response(req_id, PyDict(<<
                              <<"embedding", Item(e.val, "embeddings").v[1]>> >>))),
                          e.runs, e.logged, m, f)
    ELSE IF method = PyStr("embed_queries") THEN
        LET texts == Subscript(params, "texts")
        IN IF texts.raised THEN Effect(texts, <<>>, <<>>, m, f)
           ELSE
           LET e == embed_queries_mlx(texts.val, env)
           IN IF e.raised THEN Effect(e, e.runs, e.logged, m, f)
              ELSE Effect(Return(result_response(req_id, e.val)), e.runs, e.logged, m, f)
    ELSE IF method = PyStr("extract_pages") THEN
        LET pdf_path == Subscript(params, "pdf_path")
            output_dir == Subscript(params, "output_dir")
        IN IF pdf_path.raised THEN Effect(pdf_path, <<>>, <<>>, m, f)
           ELSE IF output_dir.raised THEN Effect(output_dir, <<>>, <<>>, m, f)
           ELSE
           LET e == extract_pages(pdf_path.val, output_dir.val, env, f)
           IN IF e.raised THEN Effect(e, <<>>, <<>>, m, e.fs)
              ELSE Effect(Return(result_response(req_id, e.val)), <<>>, <<>>, m, e.fs)
    ELSE IF method = PyStr("extract_text") THEN
        LET pdf_path == Subscript(params, "pdf_path")
        IN IF pdf_path.raised THEN Effect(pdf_path, <<>>, <<>>, m, f)
           ELSE
           LET e == extract_text(pdf_path.val, env)
           IN IF e.raised THEN Effect(e, <<>>, e.logged, m, f)
              ELSE Effect(Return(result_response(req_id, e.val)), <<>>, e.logged, m, f)
    ELSE IF method = PyStr("shutdown") THEN
        Effect(Return(result_response(req_id, PyDict(<<
                   <<"status", PyStr("shutting_down")>> >>))), <<>>, <<>>, m, f)
    ELSE
        Effect(Return(error_response(req_id, "Unknown method: " \o str_of(method))),
               <<>>, <<>>, m, f)

\* the handle_request of the file that was launched
dispatch(b, rq, env, m, f, dev, dt) ==
    IF b = "torch" THEN handle_request(rq, env, m, f, dev, dt)
    ELSE handle_request_mlx(rq, env, m, f)

-----------------------------------------------------------------------------
(* main(): startup *)

\* init_model_device trying CUDA before MPS
init_model_device_cuda_first(h) ==
    IF h.cuda THEN "cuda:0" ELSE IF h.mps THEN "mps" ELSE "cpu"

\* the device and dtype init_model() of server.py selects
init_model_device(h) ==
    IF h.mps THEN "mps" ELSE IF h.cuda THEN "cuda:0" ELSE "cpu"

init_model_dtype(h) ==
    IF h.mps THEN "torch.float32"
    ELSE IF h.cuda THEN "torch.bfloat16"
    ELSE "torch.float32"

\* ready_msg of each file
ready_msg(b, dev) ==
    IF b = "torch"
    THEN PyDict(<< <<"ready", PyBool(TRUE)>>, <<"model", PyStr(MODEL_ID)>>,
                   <<"device", PyStr(dev)>> >>)
    ELSE PyDict(<< <<"ready", PyBool(TRUE)>>, <<"model", PyStr(MODEL_ID_mlx)>>,
                   <<"device", PyStr("gpu")>>, <<"backend", PyStr(BACKEND)>> >>)

\* main() up to the loop, everything succeeding: the readiness line is
\* written after init_model() has returned
StartupOk ==
    /\ pc = "Initializing"
    /\ model' = "loaded"
    /\ device' = IF backend = "torch" THEN init_model_device(hw) ELSE device
    /\ dtype' = IF backend = "torch" THEN init_model_dtype(hw) ELSE dtype
    /\ stdout' = stdout \o <<json_dumps(ready_msg(backend, device'))>>
    /\ stderr' = stderr \o
          (IF backend = "torch"
           THEN <<"initializing", "metrics_server", "loading", "loaded", "ready">>
           ELSE <<"initializing", "loading", "loaded", "ready">>)
    /\ pc' = "Ready"
    /\ UNCHANGED <<backend, hw, line, req, response, nread, metrics, fs, runs>>

\* StartupFails with readiness signalled before init_model() is called
StartupFails_ready_first ==
    /\ pc = "Initializing"
    /\ stdout' = stdout \o <<json_dumps(ready_msg(backend, device))>>
    /\ stderr' = stderr \o <<"initializing", "traceback">>
    /\ pc' = "StartupFailed"
    /\ UNCHANGED <<backend, hw, model, device, dtype, line, req, response, nread,
                   metrics, fs, runs>>

\* main() up to the loop, start_metrics_server() (server.py) or the loading
\* of the model raising: the exception leaves main()
StartupFails ==
    /\ pc = "Initializing"
    /\ \E step \in {"metrics_server", "load"} :
          /\ step = "metrics_server" => backend = "torch"
          /\ device' = IF backend = "torch" /\ step = "load"
                       THEN init_model_device(hw) ELSE device
          /\ dtype' = IF backend = "torch" /\ step = "load"
                      THEN init_model_dtype(hw) ELSE dtype
          /\ stderr' = stderr \o
                (IF step = "metrics_server" THEN <<"initializing", "traceback">>
                 ELSE IF backend = "torch"
                 THEN <<"initializing", "metrics_server", "loading", "traceback">>
                 ELSE <<"initializing", "loading", "traceback">>)
    /\ pc' = "StartupFailed"
    /\ UNCHANGED <<backend, hw, model, line, req, response, stdout, nread, metrics, fs,
                   runs>>

-----------------------------------------------------------------------------
(* main(): the loop *)

\* lines of stdin: nothing but the newline, white space, text that is no
\* JSON, or the text of a JSON value
EmptyLine == [kind |-> "empty", val |-> None]
SpacesLine == [kind |-> "spaces", val |-> None]
MalformedLine == [kind |-> "malformed", val |-> None]
JsonLine(v) == [kind |-> "json", val |-> v]

\* the loop variable before the first line is read
NoLine == [kind |-> "unread", val |-> None]

\* strip_line leaving the white space in place
strip_line_keeps_spaces(raw) == raw

\* line.strip()
strip_line(raw) == IF raw.kind = "spaces" THEN EmptyLine ELSE raw

\* json.loads(line)
json_loads(l) ==
    IF l.kind = "malformed" THEN Raise("Expecting value: line 1 column 1 (char 0)")
    ELSE Return(l.val)

\* except_clause calling req.get("id") without looking at the type of req
except_clause_unchecked_get(rq, message) ==
    IF rq = Unbound THEN Raise("local variable 'req' referenced before assignment")
    ELSE IF ~isinstance_dict(rq) THEN Raise("object has no attribute 'get'")
    ELSE Return(error_response(Get(rq, "id", None), message))

\* except_clause answering every failure with id null
except_clause_null_id(rq, message) ==
    IF rq = Unbound THEN Raise("local variable 'req' referenced before assignment")
    ELSE Return(error_response(None, message))

\* the except clause of the loop: the response it builds, or the
\* UnboundLocalError of reading req before json.loads ever returned
except_clause(rq, message) ==
    IF rq = Unbound THEN Raise("local variable 'req' referenced before assignment")
    ELSE Return(error_response(
             IF isinstance_dict(rq) THEN Get(rq, "id", None) ELSE None, message))

\* write_line keeping the encoded line back instead of writing it
write_line_buffered(eff, enc) ==
    [eff EXCEPT !.logged = @ \o enc.logged]

\* sys.stdout.write(encoded + "\n") and what the encoder logged
write_line(eff, enc) ==
    [eff EXCEPT !.out = <<enc.line>>, !.logged = @ \o enc.logged]

\* response = ...
assign_response(eff, r) == [eff EXCEPT !.response = r]

\* excepted printing its message to stdout, before the response
excepted_logs_to_stdout(b, eff, ex) ==
    IF ex.raised
    THEN [eff EXCEPT !.logged = @ \o <<"traceback">>, !.exit = "escape",
                     !.out = <<(<<[k |-> "text", s |-> "error"]>>)>>]
    ELSE [write_line(assign_response(eff, ex.val), encode(b, ex.val))
              EXCEPT !.out = <<(<<[k |-> "text", s |-> "error"]>>)>> \o @]

\* the except clause once it has built its response or raised itself
excepted(b, eff, ex) ==
    IF ex.raised
    THEN [eff EXCEPT !.logged = @ \o <<"error", "traceback">>, !.exit = "escape"]
    ELSE write_line(assign_response([eff EXCEPT !.logged = @ \o <<"error">>], ex.val),
                    encode(b, ex.val))

\* dispatched without the break after a shutdown request
dispatched_no_break(b, rq1, eff, h) ==
    IF h.raised
    THEN excepted(b, [eff EXCEPT !.metrics = h.metrics, !.fs = h.fs,
                                 !.runs = h.runs, !.logged = h.logged],
                  except_clause(rq1, h.msg))
    ELSE write_line([eff EXCEPT !.metrics = h.metrics, !.fs = h.fs,
                                !.runs = h.runs, !.logged = h.logged,
                                !.response = h.val],
                    encode(b, h.val))

\* the iteration from the return of handle_request on
dispatched(b, rq1, eff, h) ==
    IF Get(rq1, "method", None) = PyStr("shutdown")
    THEN [write_line([eff EXCEPT !.metrics = h.metrics, !.fs = h.fs,
                                 !.runs = h.runs, !.logged = h.logged,
                                 !.response = h.val],
                     encode(b, h.val))
              EXCEPT !.logged = @ \o <<"shutdown">>, !.exit = "break"]
    ELSE IF h.raised
    THEN excepted(b, [eff EXCEPT !.metrics = h.metrics, !.fs = h.fs,
                                 !.runs = h.runs, !.logged = h.logged],
                  except_clause(rq1, h.msg))
    ELSE write_line([eff EXCEPT !.metrics = h.metrics, !.fs = h.fs,
                                !.runs = h.runs, !.logged = h.logged,
                                !.response = h.val],
                    encode(b, h.val))

\* the iteration from the return of json.loads on
parsed_line(b, eff, rq, parsed, env, m, f, dev, dt) ==
    IF parsed.raised THEN excepted(b, eff, except_clause(rq, parsed.msg))
    ELSE IF ~isinstance_dict(parsed.val)
    THEN excepted(b, [eff EXCEPT !.req = parsed.val],
                  except_clause(parsed.val, "object has no attribute 'get'"))
    ELSE dispatched(b, parsed.val, [eff EXCEPT !.req = parsed.val],
                    dispatch(b, parsed.val, env, m, f, dev, dt))

\* the iteration on the stripped line l
stripped(b, l, rq, rsp, env, m, f, dev, dt) ==
    IF l.kind = "empty"
    THEN [line |-> l, req |-> rq, response |-> rsp, out |-> <<>>, logged |-> <<>>,
          exit |-> "continue", metrics |-> m, fs |-> f, runs |-> <<>>]
    ELSE parsed_line(b, [line |-> l, req |-> rq, response |-> rsp, out |-> <<>>,
                         logged |-> <<>>, exit |-> "continue", metrics |-> m,
                         fs |-> f, runs |-> <<>>],
                     rq, json_loads(l), env, m, f, dev, dt)

\* one iteration of the loop on the raw line: the new line and req, the lines
\* written, the messages logged, and how the iteration ends: "continue" (on
\* to the next line), "break" (shutdown) or "escape" (an exception leaves
\* main())
iteration(b, raw, rq, rsp, env, m, f, dev, dt) ==
    stripped(b, strip_line(raw), rq, rsp, env, m, f, dev, dt)

\* main() is in the loop and stdin has a next line within the limit
Reading(limit) == pc = "Ready" /\ nread < limit

\* Loop with an iteration that leaves the model on the cpu
Loop_moves_model(raw, env, limit) ==
    /\ Reading(limit)
    /\ \E it \in {iteration(backend, raw, req, response, env, metrics, fs,
                               device, dtype)} :
          /\ line' = it.line
          /\ req' = it.req
          /\ response' = it.response
          /\ stdout' = stdout \o it.out
          /\ stderr' = stderr \o it.logged
          /\ metrics' = it.metrics
          /\ fs' = it.fs
          /\ runs' = it.runs
          /\ pc' = CASE it.exit = "break" -> "Shutdown"
                     [] it.exit = "escape" -> "Crashed"
                     [] OTHER -> "Ready"
    /\ nread' = nread + 1
    /\ device' = "cpu"
    /\ UNCHANGED <<backend, hw, model, dtype>>

\* the loop body as a step of the server: it reads the next line of stdin
\* while fewer than `limit` lines have been read
Loop(raw, env, limit) ==
    /\ Reading(limit)
    /\ \E it \in {iteration(backend, raw, req, response, env, metrics, fs,
                               device, dtype)} :
          /\ line' = it.line
          /\ req' = it.req
          /\ response' = it.response
          /\ stdout' = stdout \o it.out
          /\ stderr' = stderr \o it.logged
          /\ metrics' = it.metrics
          /\ fs' = it.fs
          /\ runs' = it.runs
          /\ pc' = CASE it.exit = "break" -> "Shutdown"
                     [] it.exit = "escape" -> "Crashed"
                     [] OTHER -> "Ready"
    /\ nread' = nread + 1
    /\ UNCHANGED <<backend, hw, model, device, dtype>>

\* "for line in sys.stdin" finds stdin closed: main() returns
EndOfInput ==
    /\ pc = "Ready"
    /\ pc' = "Eof"
    /\ UNCHANGED <<backend, hw, model, device, dtype, line, req, response, stdout,
                   stderr, nread, metrics, fs, runs>>

-----------------------------------------------------------------------------
(* The inputs: the lines a caller sends and what the world outside answers *)

\* a key the request does not carry
Absent == [t |-> "absent", v |-> <<>>]

\* the JSON object with those of id, method and params that are not Absent
Request(id, method, params) ==
    PyDict(SelectSeq(<< <<"id", id>>, <<"method", method>>, <<"params", params>> >>,
                     LAMBDA kv : kv[2] # Absent))

Ids == {Absent, None, PyInt(1), PyInt(2)}

\* the ids of the requests that reach a handler, in the protocol specification
HandlerIds == {Absent, PyInt(1)}

\* JSON values that are no object
NonObjects == {PyInt(5), PyStr("shutdown"), PyList(<<>>), PyBool(TRUE), None}

\* {"paths": [n paths]}, {"texts": [n texts]}
PathNames == <<"a.png", "b.png", "c.png", "d.png">>
TextNames == <<"pasta", "pizza", "pesto", "panna">>
ParamsPaths(n) == PyDict(<< <<"paths", PyList([i \in 1..n |-> PyStr(PathNames[i])])>> >>)
ParamsTexts(n) == PyDict(<< <<"texts", PyList([i \in 1..n |-> PyStr(TextNames[i])])>> >>)
ParamsText == PyDict(<< <<"text", PyStr("pasta")>> >>)
ParamsPdf == PyDict(<< <<"pdf_path", PyStr("doc.pdf")>> >>)
ParamsPdfOut ==
    PyDict(<< <<"pdf_path", PyStr("doc.pdf")>>, <<"output_dir", PyStr("out")>> >>)

\* a PDF as fitz sees it: whether it opens, and per page the native text and
\* what OCR would do
NoDoc == [readable |-> FALSE, pages |-> <<>>]
TextPage == [native |-> " Hello ", ocr_raises |-> FALSE, ocr |-> ""]
ScanPage == [native |-> " ", ocr_raises |-> FALSE, ocr |-> " Scan "]
BadPage == [native |-> "", ocr_raises |-> TRUE, ocr |-> ""]
Doc(pages) == [readable |-> TRUE, pages |-> pages]

\* what the world outside answers during one request: which external call
\* raises, the outputs of the first and the second forward pass (of the
\* per-input passes, for MLX), the PDF, and whether pytesseract imports
Env(fault, first, retry, doc, tess) ==
    [fault |-> fault, first |-> first, retry |-> retry, doc |-> doc, tess |-> tess]

NoEnv == Env("none", <<>>, <<>>, NoDoc, FALSE)

\* n outputs of one finite vector each
Plain(n) == [i \in 1..n |-> <<(<<"0.5">>)>>]

\* the outputs the second forward pass can have after the first gave t: it
\* is run only after a NaN
Retries(t, n, items) == IF isnan_any(t) THEN TensorsOf(n, items) ELSE {t}

\* the worlds of an extraction request: a fault, or one of the PDFs, with and
\* without pytesseract
DocEnvs(docs, faults) ==
    {Env(fl, <<>>, <<>>, NoDoc, FALSE) : fl \in faults}
    \cup {Env("none", <<>>, <<>>, d[1], d[2]) : d \in docs \X BOOLEAN}

\* the PDFs of the protocol specification
DocsNarrow == {NoDoc, Doc(<<BadPage, TextPage>>)}

-----------------------------------------------------------------------------
(* The steps of the server, by the line read *)

ReadBlank(limit) ==
    /\ Reading(limit)
    /\ \E raw \in {EmptyLine, SpacesLine} : Loop(raw, NoEnv, limit)

ReadMalformed(limit) == Loop(MalformedLine, NoEnv, limit)

ReadNonObject(limit) ==
    /\ Reading(limit)
    /\ \E v \in NonObjects : Loop(JsonLine(v), NoEnv, limit)

\* health, an unknown method, no method
ReadPlain(limit) ==
    /\ Reading(limit)
    /\ \E id \in Ids, method \in {PyStr("health"), PyStr("bogus"), Absent} :
        Loop(JsonLine(Request(id, method, Absent)), NoEnv, limit)

ReadShutdown(limit) ==
    /\ Reading(limit)
    /\ \E id \in Ids : Loop(JsonLine(Request(id, PyStr("shutdown"), Absent)), NoEnv, limit)

\* the loop body on an embedding request with n inputs, in every world: a
\* fault (which the handler meets only if it makes that call), or the outputs
\* of the forward passes
EmbedRequest(l, n, items, faults, limit) ==
    \/ \E fl \in faults : Loop(l, Env(fl, Plain(n), Plain(n), NoDoc, FALSE), limit)
    \/ \E t1 \in TensorsOf(n, items) : \E t2 \in Retries(t1, n, items) :
          Loop(l, Env("none", t1, t2, NoDoc, FALSE), limit)

\* embed_images without params, or with n paths for an n of sizes
ReadEmbedImages(ids, sizes, items, faults, limit) ==
    /\ Reading(limit)
    /\ \E id \in ids :
        \/ Loop(JsonLine(Request(id, PyStr("embed_images"), Absent)), NoEnv, limit)
        \/ \E n \in sizes :
              EmbedRequest(JsonLine(Request(id, PyStr("embed_images"), ParamsPaths(n))),
                           n, items, faults, limit)

ReadEmbedQuery(ids, items, faults, limit) ==
    /\ Reading(limit)
    /\ \E id \in ids :
        \/ Loop(JsonLine(Request(id, PyStr("embed_query"), Absent)), NoEnv, limit)
        \/ EmbedRequest(JsonLine(Request(id, PyStr("embed_query"), ParamsText)),
                        1, items, faults, limit)

ReadEmbedQueries(ids, sizes, items, faults, limit) ==
    /\ Reading(limit)
    /\ \E id \in ids :
        \/ Loop(JsonLine(Request(id, PyStr("embed_queries"), Absent)), NoEnv, limit)
        \/ \E n \in sizes :
              EmbedRequest(JsonLine(Request(id, PyStr("embed_queries"), ParamsTexts(n))),
                           n, items, faults, limit)

ReadExtractPages(ids, docs, faults, limit) ==
    /\ Reading(limit)
    /\ \E id \in ids :
        \/ Loop(JsonLine(Request(id, PyStr("extract_pages"), ParamsPdf)), NoEnv, limit)
        \/ \E env \in DocEnvs(docs, faults) :
              Loop(JsonLine(Request(id, PyStr("extract_pages"), ParamsPdfOut)),
                   env, limit)

ReadExtractText(ids, docs, limit) ==
    /\ Reading(limit)
    /\ \E id \in ids :
        \/ Loop(JsonLine(Request(id, PyStr("extract_text"), Absent)), NoEnv, limit)
        \/ \E env \in DocEnvs(docs, {}) :
              Loop(JsonLine(Request(id, PyStr("extract_text"), ParamsPdf)), env, limit)

-----------------------------------------------------------------------------
(* The protocol specification: sessions of up to MaxLines lines, of every   *)
(* kind of line; a forward pass gives one vector of one finite value or NaN *)

\* the process before main() runs, on the hardware of hws
Start(hws) ==
    /\ backend \in {"torch", "mlx"}
    /\ hw \in hws
    /\ backend = "mlx" => hw = [mps |-> TRUE, cuda |-> FALSE]
    /\ pc = "Initializing"
    /\ model = "None"
    /\ device = "None"
    /\ dtype = "None"
    /\ line = NoLine
    /\ req = Unbound
    /\ response = Unbound
    /\ stdout = <<>>
    /\ stderr = <<>>
    /\ nread = 0
    /\ metrics = [requests |-> [m \in MetricMethods |-> 0],
                  pages |-> 0,
                  observed |-> [m \in MetricMethods |-> 0]]
    /\ runs = <<>>

\* the hardware the model is checked on
Hardware == {[mps |-> TRUE, cuda |-> FALSE], [mps |-> FALSE, cuda |-> TRUE]}

\* the process is launched where no output directory exists yet
Init == Start(Hardware) /\ fs = {}

ItemsProto == {<<(<<f>>)>> : f \in {"0.5", "NaN"}}

Next ==
    \/ StartupOk
    \/ StartupFails
    \/ ReadBlank(MaxLines)
    \/ ReadMalformed(MaxLines)
    \/ ReadNonObject(MaxLines)
    \/ ReadPlain(MaxLines)
    \/ ReadShutdown(MaxLines)
    \/ ReadEmbedImages(HandlerIds, {1}, ItemsProto, {"open"}, MaxLines)
    \/ ReadEmbedQuery(HandlerIds, ItemsProto, {"forward"}, MaxLines)
    \/ ReadEmbedQueries(HandlerIds, {1}, ItemsProto, {"metrics"}, MaxLines)
    \/ ReadExtractPages(HandlerIds, DocsNarrow, {"makedirs"}, MaxLines)
    \/ ReadExtractText(HandlerIds, DocsNarrow, MaxLines)
    \/ EndOfInput

Spec == Init /\ [][Next]_vars

-----------------------------------------------------------------------------
(* The embedding specification: sessions of one embedding request, with up  *)
(* to MaxBatch inputs and every output of Items in every position           *)

NextEmbed ==
    \/ StartupOk
    \/ ReadEmbedImages({PyInt(1)}, 0..MaxBatch, Items,
                       {"open", "process", "forward", "metrics"}, 1)
    \/ ReadEmbedQuery({PyInt(1)}, Items, {"forward", "metrics"}, 1)
    \/ ReadEmbedQueries({PyInt(1)}, 0..MaxBatch, Items, {"forward", "metrics"}, 1)
    \/ EndOfInput

SpecEmbed == Init /\ [][NextEmbed]_vars

-----------------------------------------------------------------------------
(* The extraction specification: sessions of one extraction request on a    *)
(* PDF of up to MaxPages pages of every kind, launched where the output     *)
(* directory exists already or does not                                     *)

\* how many pages a PDF of the extraction specification has at most
MaxPages == 2

PageKinds == {TextPage, ScanPage, BadPage}

DocsWide ==
    {NoDoc} \cup UNION {{Doc(p) : p \in [1..n -> PageKinds]} : n \in 0..MaxPages}

NextExtract ==
    \/ StartupOk
    \/ ReadExtractPages({PyInt(1)}, DocsWide, {"makedirs"}, 1)
    \/ ReadExtractText({PyInt(1)}, DocsWide, 1)
    \/ EndOfInput

InitExtract == Start(Hardware) /\ fs \in {{}, {"out"}}

SpecExtract == InitExtract /\ [][NextExtract]_vars

-----------------------------------------------------------------------------
(* The initialization specification: the server is launched on every        *)
(* combination of hardware and handles one request without parameters       *)

AllHardware == [mps : BOOLEAN, cuda : BOOLEAN]

InitAnywhere == Start(AllHardware) /\ fs = {}

NextInit ==
    \/ StartupOk
    \/ StartupFails
    \/ ReadPlain(1)
    \/ EndOfInput

SpecInit == InitAnywhere /\ [][NextInit]_vars

-----------------------------------------------------------------------------
(* The encoding specification: safe_json_dumps is applied to one response   *)
(* made of every kind of value, in lists of up to MaxElems elements         *)

\* how many elements a list of the encoding specification has at most
MaxElems == 2

\* the values without parts
Leaves ==
    {None, PyBool(TRUE), PyInt(1), PyStr("a")}
    \cup {PyFloat(f) : f \in {"0.5", "NaN", "Infinity", "-Infinity"}}

\* a value, a list of values, or a dict of one of these
Payloads ==
    LET flat == Leaves \cup UNION {{PyList(l) : l \in [1..n -> Leaves]} : n \in 0..MaxElems}
    IN flat \cup {PyDict(<< <<"embedding", v>> >>) : v \in flat}

\* the responses handed to the encoder
Responses ==
    {PyDict(<< <<"id", i>>, <<k, v>> >>) :
        i \in {None, PyInt(1)}, k \in {"result", "error"}, v \in Payloads}

InitEncode ==
    /\ backend = "torch"
    /\ hw = [mps |-> TRUE, cuda |-> FALSE]
    /\ pc = "Encoding"
    /\ model = "loaded"
    /\ device = "mps"
    /\ dtype = "torch.float32"
    /\ line = NoLine
    /\ req = Unbound
    /\ response \in Responses
    /\ stdout = <<>>
    /\ stderr = <<>>
    /\ nread = 0
    /\ metrics = [requests |-> [m \in MetricMethods |-> 0],
                  pages |-> 0,
                  observed |-> [m \in MetricMethods |-> 0]]
    /\ fs = {}
    /\ runs = <<>>

\* sys.stdout.write(safe_json_dumps(response) + "\n")
WriteEncoded ==
    /\ pc = "Encoding"
    /\ \E enc \in {safe_json_dumps(response)} :
          /\ stdout' = stdout \o <<enc.line>>
          /\ stderr' = stderr \o enc.logged
    /\ pc' = "Encoded"
    /\ UNCHANGED <<backend, hw, model, device, dtype, line, req, response, nread,
                   metrics, fs, runs>>

NextEncode == WriteEncoded

SpecEncode == InitEncode /\ [][NextEncode]_vars

-----------------------------------------------------------------------------
(* Reading a written line *)

Last(q) == q[Len(q)]

\* how many brackets are open before position i of the line
Depth(l, i) ==
    Cardinality({j \in 1..(i - 1) : l[j] \in {Punct("{"), Punct("[")}})
    - Cardinality({j \in 1..(i - 1) : l[j] \in {Punct("}"), Punct("]")}})

\* the keys of the object the line encodes
TopKeys(l) ==
    {l[i].s : i \in {j \in 1..(Len(l) - 1) :
                        l[j].k = "string" /\ l[j + 1] = Punct(":") /\ Depth(l, j) = 1}}

\* the token of the id, which every response carries first
LineIdToken(l) == l[4]

\* how a request's id reads on the wire
IdToken(id) == IF id.t = "int" THEN Num(ToString(id.v)) ELSE Lit("null")

IsReadyLine(l) == "ready" \in TopKeys(l)

\* the step reads one more line of stdin
ReadsLine == pc = "Ready" /\ nread' = nread + 1

\* the line just read parses as a JSON object
IsRequest(l) == l.kind = "json" /\ isinstance_dict(l.val)

MethodOf(l) == Get(l.val, "method", None)

\* the step writes exactly one more line to stdout
WritesOne == Len(stdout') = Len(stdout) + 1 /\ SubSeq(stdout', 1, Len(stdout)) = stdout

\* the except clause of the loop ran during the step
Excepted == \E k \in (Len(stderr) + 1)..Len(stderr') : stderr'[k] = "error"

KnownMethods ==
    {PyStr(m) : m \in {"health", "embed_images", "embed_query", "embed_queries",
                       "extract_pages", "extract_text", "shutdown"}}

-----------------------------------------------------------------------------
(* The claims *)

\* C1: in the Ready state, a line that parses as a JSON object gets exactly
\* one response line, whose id is the request's id (null when it has none),
\* whether the handler succeeds, the method is unknown or the handler raises.
C1_OneResponseEchoingId ==
    [][(ReadsLine /\ IsRequest(line'))
          => /\ WritesOne
             /\ LineIdToken(Last(stdout')) = IdToken(Get(line'.val, "id", None))]_vars

\* a request with id 1 whose handler raised, read after another line, has
\* been answered with an error
C1_Witness ==
    /\ nread = 2
    /\ IsRequest(line)
    /\ MethodOf(line) = PyStr("embed_images")
    /\ Get(line.val, "id", None) = PyInt(1)
    /\ TopKeys(Last(stdout)) = {"id", "error"}
    /\ LineIdToken(Last(stdout)) = Num("1")

\* C2: a line that is not valid JSON, at any position, gets one response with
\* an error key and id null, and the loop goes on to the next line.
C2_MalformedGetsNullIdError ==
    [][(ReadsLine /\ line'.kind = "malformed")
          => /\ WritesOne
             /\ TopKeys(Last(stdout')) = {"id", "error"}
             /\ LineIdToken(Last(stdout')) = Lit("null")
             /\ pc' = "Ready"]_vars

\* C3: once Ready, the loop ends only by a shutdown request or the end of
\* input: no exception leaves main().
C3_NoExceptionEscapes == pc # "Crashed"

\* C4: in both backends no line written to stdout carries a non-finite
\* float token (NaN, Infinity, -Infinity), whatever the inference put out.
C4_NoNonFiniteToken ==
    \A i \in 1..Len(stdout) : \A j \in 1..Len(stdout[i]) :
        stdout[i][j].k = "number" => stdout[i][j].s \notin NonFinite

\* some value of the output of a forward pass is NaN or an infinity
nonfinite_any(t) ==
    \E i \in 1..Len(t) : \E j \in 1..Len(t[i]) : \E k \in 1..Len(t[i][j]) :
        t[i][j][k] \in NonFinite

\* the line just handled is a request for the method, and its handler ran the
\* forward pass
Embedded(methods) ==
    /\ IsRequest(line)
    /\ MethodOf(line) \in {PyStr(m) : m \in methods}
    /\ runs # <<>>

\* the call returned to the dispatcher and the response carries its result
Returned == isinstance_dict(response) /\ HasKey(response, "result")

\* C5: one embed_images call of server.py runs the inference once when the
\* first output has no non-finite value and twice when it has one.
C5_OnceOrTwice ==
    (backend = "torch" /\ Embedded({"embed_images"}))
        => Len(runs) = IF nonfinite_any(runs[1]) THEN 2 ELSE 1

\* C6: every value of every embedding embed_images of server.py returns is
\* finite, for every pair of outputs of the first run and the retry.
C6_ImagesFinite ==
    (backend = "torch" /\ Embedded({"embed_images"}) /\ Returned)
        => ~ContainsNonFinite(response)

\* the forward passes one call makes when nothing is retried: one for the
\* batch in server.py, one for each input in server_mlx.py
BaseRuns ==
    IF backend = "torch" \/ MethodOf(line) = PyStr("embed_query") THEN 1
    ELSE Len(Item(Item(line.val, "params"), "texts").v)

\* C7: for embed_query and embed_queries a non-finite output is retried and
\* the result returned to the dispatcher has no non-finite value.
C7_QueriesGuarded ==
    (/\ Embedded({"embed_query", "embed_queries"})
     /\ \E r \in 1..Len(runs) : r <= BaseRuns /\ nonfinite_any(runs[r]))
        => /\ Len(runs) > BaseRuns
           /\ Returned => ~ContainsNonFinite(response)

\* the line that answers a shutdown request with the id
ShuttingDownLine(id) ==
    <<Punct("{"), Quoted("id"), Punct(":"), IdToken(id), Punct(","),
      Quoted("result"), Punct(":"),
      Punct("{"), Quoted("status"), Punct(":"), Quoted("shutting_down"), Punct("}"),
      Punct("}")>>

\* C8: a shutdown request gets exactly one response, with its id and
\* result.status "shutting_down", and the loop ends; after that no line is
\* read and no line is written.
C8_ShutdownAnsweredThenSilent ==
    [][/\ (ReadsLine /\ IsRequest(line') /\ MethodOf(line') = PyStr("shutdown"))
          => /\ WritesOne
             /\ Last(stdout') = ShuttingDownLine(Get(line'.val, "id", None))
             /\ pc' = "Shutdown"
       /\ pc = "Shutdown"
          => pc' = "Shutdown" /\ nread' = nread /\ stdout' = stdout /\ line' = line]_vars

\* a second line asked for shutdown with id 2, and was answered
C8_Witness ==
    /\ pc = "Shutdown"
    /\ nread = 2
    /\ Get(line.val, "id", None) = PyInt(2)
    /\ Len(stdout) = 3
    /\ Last(stdout) = ShuttingDownLine(PyInt(2))

\* C9: the readiness line is written once, after the model has loaded and
\* before any line is read or answered; when initialization fails nothing is
\* written, nothing is read and the server is never Ready.
C9_ReadyOnceAfterInit ==
    IF pc \in {"Initializing", "StartupFailed"}
    THEN stdout = <<>> /\ nread = 0 /\ line = NoLine
    ELSE /\ model = "loaded"
         /\ Len(stdout) >= 1
         /\ IsReadyLine(stdout[1])
         /\ \A i \in 2..Len(stdout) : ~IsReadyLine(stdout[i])

\* requests have been answered after the readiness line
C9_Witness ==
    /\ pc = "Ready"
    /\ nread = 2
    /\ Len(stdout) = 3
    /\ IsReadyLine(stdout[1])

\* the token after the key of the object the line encodes
ValueToken(l, key) ==
    l[(CHOOSE j \in 1..(Len(l) - 2) :
          l[j] = Quoted(key) /\ l[j + 1] = Punct(":") /\ Depth(l, j) = 1) + 2]

\* C10: every response line has exactly one of the keys result and error:
\* error, a string, when the method is not a known one or the handler raises,
\* result when the handler of a known method returns.
C10_ResultXorError ==
    [][(pc = "Ready" /\ Len(stdout') > Len(stdout))
          => /\ WritesOne
             /\ TopKeys(Last(stdout')) \in {{"id", "result"}, {"id", "error"}}
             /\ "error" \in TopKeys(Last(stdout'))
                   <=> (Excepted \/ MethodOf(line') \notin KnownMethods)
             /\ "error" \in TopKeys(Last(stdout'))
                   => ValueToken(Last(stdout'), "error").k = "string"]_vars

\* one request was answered with an error and another with a result
C10_Witness ==
    \E i, j \in 2..Len(stdout) :
        /\ TopKeys(stdout[i]) = {"id", "error"}
        /\ TopKeys(stdout[j]) = {"id", "result"}
        /\ IsRequest(line)
        /\ MethodOf(line) \notin KnownMethods

\* C11: the loop handles one request at a time: the response to a non-blank
\* line is written, at the end of stdout, before the next line is read, so
\* responses come in the order of their requests, and the only forward
\* passes run are those of the request being handled.
C11_RequestAtATime ==
    [][ReadsLine
          => /\ (line'.kind # "empty" /\ pc' # "Crashed")
                   => /\ WritesOne
                      /\ Last(stdout') = encode(backend, response').line
             /\ Len(stdout') <= Len(stdout) + 1
             /\ SubSeq(stdout', 1, Len(stdout)) = stdout
             /\ runs' # <<>>
                   => /\ IsRequest(line')
                      /\ MethodOf(line') \in {PyStr("embed_images"), PyStr("embed_query"),
                                              PyStr("embed_queries")}]_vars

\* two requests were answered in the order they came: id 2, then id 1
C11_Witness ==
    /\ nread = 2
    /\ Len(stdout) = 3
    /\ LineIdToken(stdout[2]) = Num("2")
    /\ LineIdToken(stdout[3]) = Num("1")
    /\ Get(line.val, "id", None) = PyInt(1)

\* the params of the request on the line, {} when it has none
ParamsOf(l) == Get(l.val, "params", PyDict(<<>>))

\* the request on the line names no paths, or an empty list of them
NoPaths(l) ==
    \/ ~HasKey(ParamsOf(l), "paths")
    \/ Item(ParamsOf(l), "paths") = PyList(<<>>)

\* C12: in both backends an embed_images request without paths, or with an
\* empty list of paths, gets an error response and the loop goes on.
C12_NoPathsIsAnError ==
    [][(ReadsLine /\ IsRequest(line') /\ MethodOf(line') = PyStr("embed_images")
        /\ NoPaths(line'))
          => /\ WritesOne
             /\ TopKeys(Last(stdout')) = {"id", "error"}
             /\ pc' = "Ready"]_vars

\* the result of the response, and the list of inputs of the request
ResultOf(rsp) == Item(rsp, "result")
InputsOf(l) ==
    IF MethodOf(l) = PyStr("embed_images") THEN Item(ParamsOf(l), "paths").v
    ELSE Item(ParamsOf(l), "texts").v

\* the output the call converts, one item for each input: of the last
\* forward pass of server.py, NaN replaced when it was still there after the
\* retry, or of the passes of server_mlx.py, one for each input
FinalOutput ==
    IF backend = "torch"
    THEN IF Len(runs) = 2 /\ isnan_any(runs[2]) THEN nan_to_num(runs[2], dtype)
         ELSE runs[Len(runs)]
    ELSE [i \in 1..Len(runs) |-> runs[i][1]]

\* the embeddings of the result are those of the inputs, in their order
EmbeddingsAligned ==
    LET e == Item(ResultOf(response), "embeddings").v IN
    /\ Len(e) = Len(InputsOf(line))
    /\ \A i \in 1..Len(e) : e[i] = tolist(FinalOutput[i])

\* num_vectors counts the vectors of each embedding
CountsAligned ==
    /\ HasKey(ResultOf(response), "num_vectors")
    /\ LET e == Item(ResultOf(response), "embeddings").v
           c == Item(ResultOf(response), "num_vectors").v
       IN /\ Len(c) = Len(InputsOf(line))
          /\ \A i \in 1..Len(c) : c[i] = PyInt(Len(e[i].v))

\* C13, as the code has it: a successful embed_images or embed_queries
\* request returns one embedding for each input, in input order; the result
\* of embed_images also carries num_vectors, of the same length, with
\* num_vectors[i] the number of vectors of embeddings[i]; the result of
\* embed_queries has the key embeddings only.
C13_EmbeddingsAligned ==
    /\ (Embedded({"embed_images"}) /\ Returned)
          => (EmbeddingsAligned /\ CountsAligned)
    /\ (Embedded({"embed_queries"}) /\ Returned)
          => /\ EmbeddingsAligned
             /\ \A i \in 1..Len(ResultOf(response).v) :
                    ResultOf(response).v[i][1] = "embeddings"

\* C13 as stated: the result of embed_queries carries num_vectors as well
C13_AsStated ==
    (Embedded({"embed_images", "embed_queries"}) /\ Returned)
        => (EmbeddingsAligned /\ CountsAligned)

\* two images were embedded, the first to two vectors and the second to one
C13_Witness ==
    /\ Embedded({"embed_images"})
    /\ Returned
    /\ Len(InputsOf(line)) = 2
    /\ Item(ResultOf(response), "num_vectors").v = <<PyInt(2), PyInt(1)>>

\* the response to embed_queries with the one text of the embed_query
\* request on the line, the backend putting out what it just did
BatchOfOne ==
    dispatch(backend,
             Request(Get(line.val, "id", None), PyStr("embed_queries"),
                     PyDict(<< <<"texts", PyList(<<Item(ParamsOf(line), "text")>>)>> >>)),
             Env("none", runs[1], runs[1], NoDoc, FALSE),
             metrics, fs, device, dtype).val

\* C14: with the backend putting out the same, the embedding that embed_query
\* returns for a text is the one element of the embeddings that embed_queries
\* returns for the list of that text.
C14_QueryIsBatchOfOne ==
    (Embedded({"embed_query"}) /\ Returned)
        => /\ Len(Item(ResultOf(BatchOfOne), "embeddings").v) = 1
           /\ Item(ResultOf(response), "embedding")
                 = Item(ResultOf(BatchOfOne), "embeddings").v[1]

\* a query was embedded to two vectors
C14_Witness ==
    /\ Embedded({"embed_query"})
    /\ Returned
    /\ Len(Item(ResultOf(response), "embedding").v) = 2

\* the model, device, dtype and backend that initialization set for the
\* process, as health reports them
ContextAtInit ==
    IF backend = "torch"
    THEN << <<"model", PyStr(MODEL_ID)>>,
            <<"device", PyStr(init_model_device(hw))>>,
            <<"dtype", PyStr(init_model_dtype(hw))>> >>
    ELSE << <<"model", PyStr(MODEL_ID_mlx)>>,
            <<"device", PyStr("gpu")>>,
            <<"dtype", PyStr("float16")>>,
            <<"backend", PyStr(BACKEND)>> >>

\* C15: every health request of a process returns the model, device, dtype
\* and backend that initialization set, whatever was handled before it, and
\* no iteration of the loop changes the model, the device or the dtype.
C15_HealthIsStable ==
    [][/\ (ReadsLine /\ IsRequest(line') /\ MethodOf(line') = PyStr("health"))
          => /\ WritesOne
             /\ Last(stdout') = json_dumps(response')
             /\ ResultOf(response').v = << <<"status", PyStr("ok")>> >> \o ContextAtInit
       /\ pc = "Ready"
          => model' = model /\ device' = device /\ dtype' = dtype]_vars

\* health was answered after a request that failed
C15_Witness ==
    /\ nread = 2
    /\ IsRequest(line)
    /\ MethodOf(line) = PyStr("health")
    /\ Len(stdout) = 3
    /\ TopKeys(stdout[2]) = {"id", "error"}
    /\ Returned
    /\ Item(ResultOf(response), "device") \in {PyStr("mps"), PyStr("cuda:0")}

\* the embedding requests of one input
OneInputLines ==
    {JsonLine(Request(PyInt(1), PyStr("embed_images"), ParamsPaths(1))),
     JsonLine(Request(PyInt(1), PyStr("embed_query"), ParamsText)),
     JsonLine(Request(PyInt(1), PyStr("embed_queries"), ParamsTexts(1)))}

\* the file that was not launched
OtherBackend == IF backend = "torch" THEN "mlx" ELSE "torch"

\* what the loop of the other file writes for the line in the same world
OtherOut(raw, env) ==
    iteration(OtherBackend, raw, req, response, env, metrics, fs,
              init_model_device(hw), init_model_dtype(hw)).out

\* C16: for the same line and the same outputs of the forward passes, the
\* loop of server_mlx.py and the loop of server.py write the same line.
C16_SameResponseLines ==
    [][\A raw \in OneInputLines : \A t1, t2 \in TensorsOf(1, Items) :
          Loop(raw, Env("none", t1, t2, NoDoc, FALSE), 1)
              => stdout' = stdout \o OtherOut(raw, Env("none", t1, t2, NoDoc, FALSE))]_vars

\* embedding requests whose handler succeeds when nothing fails
CountedLines ==
    {JsonLine(Request(id, PyStr("embed_queries"), ParamsTexts(1))) : id \in HandlerIds}
    \cup {JsonLine(Request(id, PyStr("embed_images"), ParamsPaths(1))) : id \in HandlerIds}

\* the world in which the forward pass gives a finite output, and in which
\* the named external call fails
WorldOfOne(fault) == Env(fault, Plain(1), Plain(1), NoDoc, FALSE)

\* C17: a metrics operation that fails does not change the response: the
\* request is answered as it is when the operation succeeds, with a result.
C17_MetricsOffThePath ==
    [][\A raw \in CountedLines :
          Loop(raw, WorldOfOne("metrics"), MaxLines)
              => /\ stdout' = stdout \o iteration(backend, raw, req, response,
                                                  WorldOfOne("none"), metrics, fs,
                                                  device, dtype).out
                 /\ TopKeys(Last(stdout')) = {"id", "result"}]_vars

\* the extraction requests of the extraction specification
TextLine == JsonLine(Request(PyInt(1), PyStr("extract_text"), ParamsPdf))
PagesLine == JsonLine(Request(PyInt(1), PyStr("extract_pages"), ParamsPdfOut))

\* the world of a PDF that opens
DocWorld(d, tess) == Env("none", <<>>, <<>>, d, tess)

\* the page has no native text but white space
NoNativeText(page) == page.native \in {"", " "}

\* the native and the OCR text of a page without the white space around it
Bare(text) ==
    CASE text = " Hello " -> "Hello"
      [] text = " Scan " -> "Scan"
      [] text = " " -> ""
      [] OTHER -> text

\* the record a page is to get, the methods named as in names
PageRecord(i, page, tess, names) ==
    PyDict(<< <<"page_number", PyInt(i - 1)>>,
              <<"text", PyStr(IF ~NoNativeText(page) THEN Bare(page.native)
                              ELSE IF tess /\ ~page.ocr_raises THEN Bare(page.ocr)
                              ELSE "")>>,
              <<"method", PyStr(IF ~NoNativeText(page) \/ ~tess THEN names.embedded
                                ELSE IF page.ocr_raises THEN names.failed
                                ELSE names.ocr)>> >>)

\* the request succeeded with one record for each page of the PDF, in page
\* order, each page decided by itself
PagesRecorded(rsp, d, tess, names) ==
    /\ isinstance_dict(rsp)
    /\ HasKey(rsp, "result")
    /\ Item(ResultOf(rsp), "pages")
          = PyList([i \in 1..Len(d.pages) |-> PageRecord(i, d.pages[i], tess, names)])

\* every step that is extract_text on a PDF that opens records its pages
ExtractTextRecords(names) ==
    \A d \in DocsWide \ {NoDoc} : \A tess \in BOOLEAN :
        Loop(TextLine, DocWorld(d, tess), 1)
            => /\ PagesRecorded(response', d, tess, names)
               /\ pc' = "Ready"

PageFiles ==
    <<"out/page_0000.png", "out/page_0001.png", "out/page_0002.png",
      "out/page_0003.png">>

\* C19: extract_pages on a PDF of N pages that opens returns N paths and
\* page_count N, the i-th path the zero-padded file of page index i in the
\* output directory, and the output directory exists afterwards.
C19_OnePathPerPage ==
    [][\A d \in DocsWide \ {NoDoc} : \A tess \in BOOLEAN :
          Loop(PagesLine, DocWorld(d, tess), 1)
              => /\ isinstance_dict(response')
                 /\ HasKey(response', "result")
                 /\ Item(ResultOf(response'), "paths")
                       = PyList([i \in 1..Len(d.pages) |-> PyStr(PageFiles[i])])
                 /\ Item(ResultOf(response'), "page_count") = PyInt(Len(d.pages))
                 /\ "out" \in fs'
                 /\ \A i \in 1..Len(d.pages) : PageFiles[i] \in fs']_vars

\* the pages of a PDF of MaxPages pages were written to the output directory
C19_Witness ==
    /\ IsRequest(line)
    /\ MethodOf(line) = PyStr("extract_pages")
    /\ Returned
    /\ Len(Item(ResultOf(response), "paths").v) = MaxPages
    /\ fs = {"out"} \cup {PageFiles[i] : i \in 1..MaxPages}

\* C20: a blank or whitespace-only line writes nothing, runs no handler and
\* changes no state; a step adds a response line exactly when it processes a
\* non-blank line to the end, so there are as many response lines as
\* non-blank lines processed.
C20_BlankLinesAreSkipped ==
    [][/\ \A raw \in {EmptyLine, SpacesLine} :
            Loop(raw, NoEnv, MaxLines)
                => /\ UNCHANGED <<stdout, stderr, req, response, metrics, fs,
                                  model, device, dtype, pc>>
                   /\ runs' = <<>>
       /\ ReadsLine
            => Len(stdout') = Len(stdout)
                   + (IF line'.kind \notin {"empty", "spaces"} /\ pc' # "Crashed"
                      THEN 1 ELSE 0)]_vars

\* a blank line was read after a request was answered
C20_Witness ==
    /\ nread = 2
    /\ line = EmptyLine
    /\ Len(stdout) = 2
    /\ isinstance_dict(response)
    /\ pc = "Ready"

\* main() has left the loop, or the process has died in it
LoopEnded == pc \in {"Eof", "Shutdown", "Crashed"}

\* C21: when the loop has ended, the last line read, if it was not blank,
\* has its response: it is the last line on stdout.
C21_LastLineAnswered ==
    (LoopEnded /\ line.kind \notin {"unread", "empty"})
        => /\ response # Unbound
           /\ Len(stdout) >= 2
           /\ Last(stdout) = encode(backend, response).line

\* the messages the step writes to stderr
NewLog == {stderr'[k] : k \in (Len(stderr) + 1)..Len(stderr')}

\* the response has a page on which OCR failed
HasFailedPage(rsp) ==
    /\ isinstance_dict(rsp)
    /\ HasKey(rsp, "result")
    /\ HasKey(ResultOf(rsp), "pages")
    /\ \E i \in 1..Len(Item(ResultOf(rsp), "pages").v) :
          Item(Item(ResultOf(rsp), "pages").v[i], "method") = PyStr("ocr_failed")

\* C22: a line written to stdout is the readiness line, written first, or
\* the response to the request just handled; the messages of startup, of the
\* NaN guard, of a failed request, of a failed OCR and of shutdown go to
\* stderr, which only grows.
C22_StdoutIsProtocolOnly ==
    [][/\ stdout' # stdout
          => /\ WritesOne
             /\ IF stdout = <<>>
                THEN IsReadyLine(Last(stdout')) /\ pc = "Initializing"
                ELSE /\ ReadsLine
                     /\ TopKeys(Last(stdout')) \in {{"id", "result"}, {"id", "error"}}
                     /\ response' # Unbound
                     /\ Last(stdout') = encode(backend, response').line
       /\ SubSeq(stderr', 1, Len(stderr)) = stderr
       /\ pc = "Initializing" => "initializing" \in NewLog
       /\ (ReadsLine /\ backend = "torch" /\ Len(runs') = 2) => "nan_retry" \in NewLog
       /\ (ReadsLine /\ pc' = "Crashed") => "traceback" \in NewLog
       /\ (ReadsLine /\ line'.kind \in {"malformed"}) => "error" \in NewLog
       /\ (ReadsLine /\ HasFailedPage(response') /\ line'.kind # "empty"
           /\ MethodOf(line') = PyStr("extract_text"))
             => "ocr_failed" \in NewLog
       /\ (ReadsLine /\ pc' = "Shutdown") => "shutdown" \in NewLog]_vars

\* the NaN guard warned on stderr and the response went to stdout
C22_Witness ==
    /\ backend = "torch"
    /\ Len(runs) = 2
    /\ Len(stdout) = 2
    /\ \E k \in 1..Len(stderr) : stderr[k] = "nan_retry"
    /\ TopKeys(Last(stdout)) = {"id", "result"}

\* init_model() of server.py has returned
Initialized == backend = "torch" /\ pc \notin {"Initializing", "StartupFailed"}

\* the device is chosen by precedence: MPS, else CUDA, else the CPU
DeviceByPrecedence ==
    /\ hw.mps => device = "mps"
    /\ (~hw.mps /\ hw.cuda) => device = "cuda:0"
    /\ (~hw.mps /\ ~hw.cuda) => device = "cpu"

\* C23, as the code has it: init_model selects MPS when it is available
\* (even if CUDA is too), else CUDA, else the CPU; the dtype is float32 on
\* the MPS path and on the CPU path, and bfloat16 on the CUDA path.
C23_DeviceAndDtype ==
    Initialized
        => /\ DeviceByPrecedence
           /\ dtype = IF device = "cuda:0" THEN "torch.bfloat16" ELSE "torch.float32"

\* C23 as stated: the dtype is reduced precision on every path but MPS
C23_AsStated ==
    Initialized
        => /\ DeviceByPrecedence
           /\ dtype = IF device = "mps" THEN "torch.float32" ELSE "torch.bfloat16"

\* with MPS and CUDA both there, health reports the MPS path
C23_Witness ==
    /\ Initialized
    /\ hw = [mps |-> TRUE, cuda |-> TRUE]
    /\ IsRequest(line)
    /\ MethodOf(line) = PyStr("health")
    /\ Returned
    /\ Item(ResultOf(response), "device") = PyStr("mps")
    /\ Item(ResultOf(response), "dtype") = PyStr("torch.float32")

\* C24: a line that is valid JSON but no object gets exactly one response,
\* with an error key and id null, and the loop goes on, wherever the line
\* comes in the input.
C24_NonObjectGetsNullIdError ==
    [][\A v \in NonObjects :
          Loop(JsonLine(v), NoEnv, MaxLines)
              => /\ WritesOne
                 /\ TopKeys(Last(stdout')) = {"id", "error"}
                 /\ LineIdToken(Last(stdout')) = Lit("null")
                 /\ ValueToken(Last(stdout'), "error").k = "string"
                 /\ pc' = "Ready"]_vars

\* the number 5 came after a request with id 1 and was answered with id null
C24_Witness ==
    /\ nread = 2
    /\ line = JsonLine(PyInt(5))
    /\ Len(stdout) = 3
    /\ LineIdToken(stdout[2]) = Num("1")
    /\ LineIdToken(stdout[3]) = Lit("null")
    /\ TopKeys(stdout[3]) = {"id", "error"}
    /\ pc = "Ready"

\* the output with 0.0 at the positions of NaN and every other value kept
ZeroAtNaN(t) ==
    [i \in 1..Len(t) |-> [j \in 1..Len(t[i]) |-> [k \in 1..Len(t[i][j]) |->
        IF t[i][j][k] = "NaN" THEN "0.0" ELSE t[i][j][k]]]]

\* what the guard is to hand on, by the outputs of the first run and the retry
Guarded ==
    IF ~isnan_any(runs[1]) THEN runs[1]
    ELSE IF ~isnan_any(runs[2]) THEN runs[2]
    ELSE ZeroAtNaN(runs[2])

\* C25: the result of embed_images of server.py is the first output
\* unchanged when it has no NaN, the output of the retry unchanged when only
\* the first had NaN, and else the output of the retry with 0.0 at exactly
\* the positions of NaN, every other value, the batch size and the vector
\* counts kept.
C25_GuardChangesOnlyNaN ==
    (backend = "torch" /\ Embedded({"embed_images"}) /\ Returned)
        => /\ Len(runs) = IF isnan_any(runs[1]) THEN 2 ELSE 1
           /\ Item(ResultOf(response), "embeddings")
                 = PyList([i \in 1..Len(Guarded) |-> tolist(Guarded[i])])
           /\ Item(ResultOf(response), "num_vectors")
                 = PyList([i \in 1..Len(Guarded) |-> PyInt(Len(Guarded[i]))])

\* the line with null in the place of every non-finite float token
NullAtNonFinite(l) ==
    [i \in 1..Len(l) |->
        IF l[i].k = "number" /\ l[i].s \in NonFinite THEN Lit("null") ELSE l[i]]

\* C26: safe_json_dumps gives the plain JSON encoding of a response without
\* non-finite floats, and else that encoding with null for each NaN,
\* Infinity and -Infinity and nothing else changed: the keys, the lengths
\* and order of lists, the finite values, the id and the result or error key.
C26_OnlyNonFiniteChanges ==
    pc = "Encoded"
        => /\ Last(stdout) = NullAtNonFinite(json_dumps(response))
           /\ ~ContainsNonFinite(response)
                 => (Last(stdout) = json_dumps(response) /\ stderr = <<>>)
           /\ TopKeys(Last(stdout)) = {response.v[i][1] : i \in 1..Len(response.v)}
           /\ LineIdToken(Last(stdout)) = IdToken(Item(response, "id"))

\* a list with NaN and a finite value was written as [null, 0.5]
C26_Witness ==
    /\ pc = "Encoded"
    /\ response = PyDict(<< <<"id", PyInt(1)>>,
                            <<"result", PyList(<<PyFloat("NaN"), PyFloat("0.5")>>)>> >>)
    /\ Last(stdout) = <<Punct("{"), Quoted("id"), Punct(":"), Num("1"), Punct(","),
                        Quoted("result"), Punct(":"),
                        Punct("["), Lit("null"), Punct(","), Num("0.5"), Punct("]"),
                        Punct("}")>>

====
